---- MODULE Spec2Model ----
(***************************************************************************)
(* The products app of the catalog backend: the persisted tables, the      *)
(* public REST handlers of views.py, the response shapes of                *)
(* serializers.py and the administrative write paths of admin.py.          *)
(*                                                                         *)
(* Every handler is one action (or, where a read of the database is        *)
(* followed by a write in a later statement, one action per database       *)
(* step).  `response` always holds the response of the request completed   *)
(* last.  models.py is not part of the sources at hand: what it decides    *)
(* (Notification.save, Category.get_all_children, the default ordering of  *)
(* BestSelling/Hot) is modelled from the written specification and marked  *)
(* so where it is defined.                                                 *)
(***************************************************************************)
EXTENDS Integers, Sequences, FiniteSets, TLC

(***************************************************************************)
(* Bounds of the model.                                                    *)
(***************************************************************************)
MaxNotifications == 2
MaxCategories == 2
MaxProducts == 2
MaxTreeCategories == 3
MaxCurated == 3
MaxExtraProducts == 3
MaxDetailRows == 2

\* Concurrent requesters (API clients or admin sessions) and payload values.
Clients == {"c1", "c2"}
Messages == {"m1", "m2"}

VARIABLES
    categories,        \* Category table: id -> row
    products,          \* Product table: id -> row
    best_selling,      \* BestSelling table: id -> row
    hot,               \* Hot table: id -> row
    notifications,     \* Notification table: id -> row
    notification_seq,  \* last primary key the Notification table issued
    tracking_codes,    \* TrackingCode table: id -> row
    site_settings,     \* SiteSettings table: id -> row
    inflight,          \* per requester: the request between its database steps
    response           \* the response of the request completed last

vars == <<categories, products, best_selling, hot, notifications,
          notification_seq, tracking_codes, site_settings, inflight, response>>

catalogVars == <<categories, products, best_selling, hot, tracking_codes>>
notificationVars == <<notifications, notification_seq>>

(***************************************************************************)
(* Python's None and an optional value.                                    *)
(***************************************************************************)
None == <<>>
Some(x) == <<x>>

EmptyTable == [i \in {} |-> None]
NoResponse == [endpoint |-> "", status |-> 0]

(***************************************************************************)
(* Notifications.                                                          *)
(***************************************************************************)
ActiveNotifications(rows) == {i \in DOMAIN rows : rows[i].is_active}

\* Notification.save() (models.py): saving an active notification
\* deactivates every other one in the same transaction, then writes the row.
NotificationSave(rows, pk, instance) ==
    [i \in (DOMAIN rows) \cup {pk} |->
        IF i = pk THEN instance
        ELSE IF instance.is_active THEN [rows[i] EXCEPT !.is_active = FALSE]
        ELSE rows[i]]

\* The rows the save's deactivating UPDATE touched.
NotificationDeactivated(rows, pk, instance) ==
    IF instance.is_active THEN ActiveNotifications(rows) \ {pk} ELSE {}

\* A serializer that writes the row with a queryset update, past save().
SerializerSaveByUpdate(rows, pk, instance) ==
    [i \in (DOMAIN rows) \cup {pk} |-> IF i = pk THEN instance ELSE rows[i]]

\* NotificationSerializer is a ModelSerializer: create()/update() end in
\* instance.save().
SerializerSave(rows, pk, instance) == NotificationSave(rows, pk, instance)

\* ModelAdmin.save_model() of NotificationAdmin: obj.save().
AdminSaveModel(rows, pk, instance) == NotificationSave(rows, pk, instance)

\* NotificationSerializer: fields id, message, is_active.
NotificationSerializer(pk, row) ==
    [id |-> pk, message |-> row.message, is_active |-> row.is_active]

\* Request payloads: the writable fields, all or some of them.
NotificationFull == [message : Messages, is_active : BOOLEAN]
NotificationPartial ==
    NotificationFull \cup [message : Messages] \cup [is_active : BOOLEAN]

\* serializer.update() / form binding: set the given attributes on the
\* instance that was read.
SetAttrs(instance, data) ==
    [f \in DOMAIN instance |-> IF f \in DOMAIN data THEN data[f] ELSE instance[f]]

WriteResponse(method, code, pk, row, touched) ==
    [endpoint |-> "notifications", method |-> method, status |-> code,
     pk |-> pk, body |-> NotificationSerializer(pk, row), deactivated |-> touched]

NotFoundResponse(endpoint) == [endpoint |-> endpoint, status |-> 404]

\* POST /api/notifications/ : CreateModelMixin.create -> serializer.save().
NotificationCreate(c, data) ==
    /\ inflight[c] = None
    /\ notification_seq < MaxNotifications
    /\ LET pk == notification_seq + 1 IN
        /\ notifications' = SerializerSave(notifications, pk, data)
        /\ notification_seq' = pk
        /\ response' = WriteResponse("POST", 201, pk, data,
                           NotificationDeactivated(notifications, pk, data))
    /\ UNCHANGED <<catalogVars, site_settings, inflight>>

\* PUT/PATCH /api/notifications/{id}/ up to serializer.save(): get_object()
\* reads the row (404 when there is none) and the payload is set on it.
NotificationUpdateBegin(c, pk, data) ==
    /\ inflight[c] = None
    /\ IF pk \in DOMAIN notifications
       THEN /\ inflight' = [inflight EXCEPT ![c] =
                   Some([op |-> "update", via |-> "api", pk |-> pk,
                         instance |-> SetAttrs(notifications[pk], data)])]
            /\ UNCHANGED response
       ELSE /\ response' = NotFoundResponse("notifications")
            /\ UNCHANGED inflight
    /\ UNCHANGED <<catalogVars, notificationVars, site_settings>>

\* DELETE /api/notifications/{id}/ up to instance.delete().
NotificationDestroyBegin(c, pk) ==
    /\ inflight[c] = None
    /\ IF pk \in DOMAIN notifications
       THEN /\ inflight' = [inflight EXCEPT ![c] =
                   Some([op |-> "destroy", via |-> "api", pk |-> pk,
                         instance |-> notifications[pk]])]
            /\ UNCHANGED response
       ELSE /\ response' = NotFoundResponse("notifications")
            /\ UNCHANGED inflight
    /\ UNCHANGED <<catalogVars, notificationVars, site_settings>>

\* NotificationAdmin add view: the form (message, is_active) is saved.
AdminNotificationAdd(c, data) ==
    /\ inflight[c] = None
    /\ notification_seq < MaxNotifications
    /\ LET pk == notification_seq + 1 IN
        /\ notifications' = AdminSaveModel(notifications, pk, data)
        /\ notification_seq' = pk
        /\ response' = WriteResponse("ADMIN", 302, pk, data,
                           NotificationDeactivated(notifications, pk, data))
    /\ UNCHANGED <<catalogVars, site_settings, inflight>>

\* NotificationAdmin change view (fields message, is_active) or change list
\* (list_editable is_active) up to save_model(): the object is read and the
\* form's fields are set on it.
AdminNotificationChangeBegin(c, pk, data) ==
    /\ inflight[c] = None
    /\ pk \in DOMAIN notifications
    /\ inflight' = [inflight EXCEPT ![c] =
           Some([op |-> "update", via |-> "admin", pk |-> pk,
                 instance |-> SetAttrs(notifications[pk], data)])]
    /\ UNCHANGED <<catalogVars, notificationVars, site_settings, response>>

\* The database step that completes a request begun above.
NotificationPerform(c) ==
    /\ inflight[c] # None
    /\ LET req == inflight[c][1] IN
        /\ IF req.op = "update"
           THEN /\ notifications' =
                      IF req.via = "api"
                      THEN SerializerSave(notifications, req.pk, req.instance)
                      ELSE AdminSaveModel(notifications, req.pk, req.instance)
                /\ response' = WriteResponse(
                       IF req.via = "api" THEN "PUT" ELSE "ADMIN",
                       IF req.via = "api" THEN 200 ELSE 302,
                       req.pk, req.instance,
                       NotificationDeactivated(notifications, req.pk, req.instance))
           ELSE /\ notifications' =
                      [i \in (DOMAIN notifications) \ {req.pk} |-> notifications[i]]
                /\ response' = [endpoint |-> "notifications", method |-> "DELETE",
                                status |-> 204, pk |-> req.pk]
    /\ inflight' = [inflight EXCEPT ![c] = None]
    /\ UNCHANGED <<catalogVars, notification_seq, site_settings>>

\* The first row of a queryset in primary-key order, None when it is empty.
First(ids) == IF ids = {} THEN None ELSE Some(CHOOSE i \in ids : \A j \in ids : i <= j)

\* A view that forgets the is_active filter.
NotificationActiveUnfiltered(rows) ==
    LET notification == First(DOMAIN rows) IN
    IF notification # None
    THEN NotificationSerializer(notification[1], rows[notification[1]])
    ELSE [message |-> "", is_active |-> FALSE]

\* NotificationViewSet.active: the first active notification, else a sentinel.
NotificationActiveBody(rows) ==
    LET notification == First(ActiveNotifications(rows)) IN
    IF notification # None
    THEN NotificationSerializer(notification[1], rows[notification[1]])
    ELSE [message |-> "", is_active |-> FALSE]

\* GET /api/notifications/active/
NotificationActive ==
    /\ response' = [endpoint |-> "notifications/active", status |-> 200,
                    body |-> NotificationActiveBody(notifications)]
    /\ UNCHANGED <<catalogVars, notificationVars, site_settings, inflight>>

InitNotif ==
    /\ categories = EmptyTable
    /\ products = EmptyTable
    /\ best_selling = EmptyTable
    /\ hot = EmptyTable
    /\ tracking_codes = EmptyTable
    /\ site_settings = EmptyTable
    /\ notifications = EmptyTable
    /\ notification_seq = 0
    /\ inflight = [c \in Clients |-> None]
    /\ response = NoResponse

NextNotif ==
    \/ \E c \in Clients, data \in NotificationFull : NotificationCreate(c, data)
    \/ \E c \in Clients, pk \in 1..MaxNotifications, data \in NotificationPartial :
           NotificationUpdateBegin(c, pk, data)
    \/ \E c \in Clients, pk \in 1..MaxNotifications : NotificationDestroyBegin(c, pk)
    \/ \E c \in Clients, data \in NotificationFull : AdminNotificationAdd(c, data)
    \/ \E c \in Clients, pk \in 1..MaxNotifications, data \in NotificationPartial :
           AdminNotificationChangeBegin(c, pk, data)
    \/ \E c \in Clients : NotificationPerform(c)
    \/ NotificationActive

SpecNotif == InitNotif /\ [][NextNotif]_vars

Activates(x) ==
    \/ \E c \in Clients, data \in NotificationFull :
        /\ data.is_active
        /\ x = notification_seq + 1
        /\ NotificationCreate(c, data) \/ AdminNotificationAdd(c, data)
    \/ \E c \in Clients :
        /\ NotificationPerform(c)
        /\ inflight[c][1].op = "update"
        /\ inflight[c][1].instance.is_active
        /\ inflight[c][1].pk = x

C7_ActivationReplacesActive ==
    /\ [][\A x \in 1..MaxNotifications :
            (Activates(x) /\ ActiveNotifications(notifications) \ {x} # {})
            => /\ ActiveNotifications(notifications') = {x}
               /\ NotificationActiveBody(notifications') =
                      NotificationSerializer(x, notifications'[x])]_vars
    /\ [](response.endpoint = "notifications/active"
            => /\ ActiveNotifications(notifications) = {}
                    => response.body = [message |-> "", is_active |-> FALSE]
               /\ \A x \in ActiveNotifications(notifications) :
                    response.body.message = notifications[x].message)

\* Notification x was saved active and the save deactivated the notification
\* that was active before it.
C7_Witness ==
    /\ response.endpoint = "notifications"
    /\ response.status \in {200, 201, 302}
    /\ response.deactivated # {}
    /\ ActiveNotifications(notifications) = {response.pk}
    /\ \E y \in DOMAIN notifications :
        y \in response.deactivated /\ ~notifications[y].is_active

(***************************************************************************)
(* Site settings (the admin screen).                                       *)
(***************************************************************************)
\* hero_image is optional: "" stands for no image.
HeroImages == {"", "hero_a.png", "hero_b.png"}

\* SiteSettingsAdmin.has_add_permission: not SiteSettings.objects.exists().
HasAddPermission(rows) == DOMAIN rows = {}

\* A screen that keeps ModelAdmin's delete permission of a superuser.
HasDeletePermissionGranted(rows, pk) == TRUE

\* SiteSettingsAdmin.has_delete_permission: False for every request and object.
HasDeletePermission(rows, pk) == FALSE

AdminResponse(model, view, code) ==
    [endpoint |-> "admin", model |-> model, view |-> view, status |-> code]

\* The add view of SiteSettingsAdmin up to save_model(): the permission is
\* checked (403 when refused) and the form is bound.
AdminSiteSettingsAddBegin(c, hero_image) ==
    /\ inflight[c] = None
    /\ IF HasAddPermission(site_settings)
       THEN /\ inflight' = [inflight EXCEPT ![c] =
                   Some([op |-> "add", hero_image |-> hero_image])]
            /\ UNCHANGED response
       ELSE /\ response' = AdminResponse("sitesettings", "add", 403)
            /\ UNCHANGED inflight
    /\ UNCHANGED <<catalogVars, notificationVars, site_settings>>

\* save_model() of the add view: the row is inserted under a fresh key.
AdminSiteSettingsAddPerform(c) ==
    /\ inflight[c] # None
    /\ inflight[c][1].op = "add"
    /\ LET pk == Cardinality(DOMAIN site_settings) + 1 IN
        site_settings' = [i \in (DOMAIN site_settings) \cup {pk} |->
            IF i = pk THEN [hero_image |-> inflight[c][1].hero_image]
            ELSE site_settings[i]]
    /\ inflight' = [inflight EXCEPT ![c] = None]
    /\ response' = AdminResponse("sitesettings", "add", 302)
    /\ UNCHANGED <<catalogVars, notificationVars>>

\* The change view of SiteSettingsAdmin: hero_image is the one editable field.
AdminSiteSettingsChange(c, pk, hero_image) ==
    /\ inflight[c] = None
    /\ pk \in DOMAIN site_settings
    /\ site_settings' = [site_settings EXCEPT ![pk].hero_image = hero_image]
    /\ response' = AdminResponse("sitesettings", "change", 302)
    /\ UNCHANGED <<catalogVars, notificationVars, inflight>>

\* The delete view of SiteSettingsAdmin: refused unless permitted.
AdminSiteSettingsDelete(c, pk) ==
    /\ inflight[c] = None
    /\ pk \in DOMAIN site_settings
    /\ IF HasDeletePermission(site_settings, pk)
       THEN /\ site_settings' =
                   [i \in (DOMAIN site_settings) \ {pk} |-> site_settings[i]]
            /\ response' = AdminResponse("sitesettings", "delete", 302)
       ELSE /\ response' = AdminResponse("sitesettings", "delete", 403)
            /\ UNCHANGED site_settings
    /\ UNCHANGED <<catalogVars, notificationVars, inflight>>

InitSettings == InitNotif

NextSettings ==
    \/ \E c \in Clients, h \in HeroImages : AdminSiteSettingsAddBegin(c, h)
    \/ \E c \in Clients : AdminSiteSettingsAddPerform(c)
    \/ \E c \in Clients, pk \in 1..Cardinality(Clients), h \in HeroImages :
           AdminSiteSettingsChange(c, pk, h)
    \/ \E c \in Clients, pk \in 1..Cardinality(Clients) : AdminSiteSettingsDelete(c, pk)

SpecSettings == InitSettings /\ [][NextSettings]_vars

(***************************************************************************)
(* C2: at most one SiteSettings row exists in every reachable state, also  *)
(* when two admin add requests interleave between the has_add_permission   *)
(* check and the insert.                                                   *)
(***************************************************************************)
C2_SingletonSiteSettings == Cardinality(DOMAIN site_settings) <= 1

(***************************************************************************)
(* Strings are sequences of characters; "" is <<>>.  A query parameter is  *)
(* None when absent and Some(string) when given.                           *)
(***************************************************************************)
Lower(ch) ==
    CASE ch = "A" -> "a" [] ch = "B" -> "b" [] ch = "C" -> "c" [] OTHER -> ch

LowerStr(str) == [i \in 1..Len(str) |-> Lower(str[i])]

\* Substring test.
Contains(hay, needle) ==
    \E i \in 0..(Len(hay) - Len(needle)) : SubSeq(hay, i + 1, i + Len(needle)) = needle

\* name__icontains
IContains(hay, needle) == Contains(LowerStr(hay), LowerStr(needle))

\* Python truthiness of query_params.get(key, None).
Truthy(param) == param # None /\ param[1] # <<>>

(***************************************************************************)
(* The catalog's requests are handled one at a time and to completion: a   *)
(* handler runs once the response of the request before it has been sent.  *)
(***************************************************************************)
Idle == response = NoResponse

Send ==
    /\ response # NoResponse
    /\ response' = NoResponse
    /\ UNCHANGED <<catalogVars, notificationVars, site_settings, inflight>>

(***************************************************************************)
(* Categories and products: the tables and their admin screens.            *)
(***************************************************************************)
\* The slug (unique) and the name (its collation rank) an admin gives the
\* category created i-th; two categories may share a name.
CategorySlug(i) == <<"c", i>>
CategoryName(i) == 2 - (i % 2)

\* The name an admin gives the product created i-th.
ProductName(i) == IF i % 2 = 1 THEN <<"A", "b">> ELSE <<"b", "C">>

TopLevel(rows) == {i \in DOMAIN rows : rows[i].parent = None}

\* CategoryAdmin.formfield_for_foreignkey: the parent is chosen among the
\* categories without a parent, or left empty.
ParentChoices(rows) == {None} \cup {Some(i) : i \in TopLevel(rows)}

\* CategoryAdmin add view.
AdminCategoryAdd(limit, parent, order, is_active) ==
    /\ Idle
    /\ Cardinality(DOMAIN categories) < limit
    /\ parent \in ParentChoices(categories)
    /\ LET pk == Cardinality(DOMAIN categories) + 1 IN
        categories' = [i \in (DOMAIN categories) \cup {pk} |->
            IF i = pk
            THEN [name |-> CategoryName(pk), slug |-> CategorySlug(pk),
                  parent |-> parent, order |-> order, is_active |-> is_active]
            ELSE categories[i]]
    /\ response' = AdminResponse("category", "add", 302)
    /\ UNCHANGED <<products, best_selling, hot, tracking_codes,
                   notificationVars, site_settings, inflight>>

\* CategoryAdmin change view and change list (list_editable order, is_active).
AdminCategoryChange(pk, parent, order, is_active) ==
    /\ Idle
    /\ pk \in DOMAIN categories
    /\ parent \in ParentChoices(categories)
    /\ categories' = [categories EXCEPT ![pk].parent = parent,
                                        ![pk].order = order,
                                        ![pk].is_active = is_active]
    /\ response' = AdminResponse("category", "change", 302)
    /\ UNCHANGED <<products, best_selling, hot, tracking_codes,
                   notificationVars, site_settings, inflight>>

\* ProductAdmin add view; created_at is the instant of the insert.
AdminProductAdd(limit, category, is_active) ==
    /\ Idle
    /\ Cardinality(DOMAIN products) < limit
    /\ category \in DOMAIN categories
    /\ LET pk == Cardinality(DOMAIN products) + 1 IN
        products' = [i \in (DOMAIN products) \cup {pk} |->
            IF i = pk
            THEN [name |-> ProductName(pk), category |-> category,
                  is_active |-> is_active, created_at |-> pk]
            ELSE products[i]]
    /\ response' = AdminResponse("product", "add", 302)
    /\ UNCHANGED <<categories, best_selling, hot, tracking_codes,
                   notificationVars, site_settings, inflight>>

\* ProductAdmin change view and change list (list_editable is_active).
AdminProductChange(pk, category, is_active) ==
    /\ Idle
    /\ pk \in DOMAIN products
    /\ category \in DOMAIN categories
    /\ products' = [products EXCEPT ![pk].category = category,
                                    ![pk].is_active = is_active]
    /\ response' = AdminResponse("product", "change", 302)
    /\ UNCHANGED <<categories, best_selling, hot, tracking_codes,
                   notificationVars, site_settings, inflight>>

(***************************************************************************)
(* Response shapes of serializers.py.  Nullable fields are None or         *)
(* Some(value).  Of a product, the fields that identify it and its         *)
(* category are kept.                                                      *)
(***************************************************************************)
\* source='parent.<attr>' with allow_null.
ParentAttr(cat, attr) ==
    IF categories[cat].parent = None THEN None
    ELSE IF attr = "id" THEN categories[cat].parent
    ELSE Some(categories[categories[cat].parent[1]][attr])

ProductCategorySerializer(cat) ==
    [id |-> cat, name |-> categories[cat].name, slug |-> categories[cat].slug,
     parent_id |-> ParentAttr(cat, "id"),
     parent_name |-> ParentAttr(cat, "name"),
     parent_slug |-> ParentAttr(cat, "slug")]

ProductSerializer(pk) ==
    [id |-> pk, name |-> products[pk].name,
     category |-> ProductCategorySerializer(products[pk].category),
     category_slug |-> categories[products[pk].category].slug,
     is_active |-> products[pk].is_active,
     created_at |-> products[pk].created_at]

(***************************************************************************)
(* ProductViewSet.                                                         *)
(***************************************************************************)
\* Product.objects.filter(is_active=True)
ActiveProducts == {p \in DOMAIN products : products[p].is_active}

\* queryset.filter(name__icontains=search)
SearchFilter(queryset, search) ==
    {p \in queryset : IContains(products[p].name, search)}

\* Category.objects.get(slug=slug, is_active=True): the object, or the
\* exception it raises.
CategoryGet(slug) ==
    LET found == {i \in DOMAIN categories :
                     categories[i].slug = slug /\ categories[i].is_active} IN
    IF found = {} THEN [raised |-> "DoesNotExist"]
    ELSE IF Cardinality(found) > 1 THEN [raised |-> "MultipleObjectsReturned"]
    ELSE [raised |-> "", cat |-> CHOOSE i \in found : TRUE]

\* cat.children.filter(is_active=True)
ActiveChildren(cat) ==
    {i \in DOMAIN categories :
        categories[i].parent = Some(cat) /\ categories[i].is_active}

\* A filter that takes every child, active or not.
CategoryFilterAllChildren(queryset, cat) ==
    IF categories[cat].parent = None
    THEN {p \in queryset : products[p].category \in
             {cat} \cup {i \in DOMAIN categories : categories[i].parent = Some(cat)}}
    ELSE {p \in queryset : products[p].category = cat}

\* get_queryset, lines 103-109: a category without a parent takes its
\* active children with it, a category with a parent stands alone.
CategoryFilter(queryset, cat) ==
    IF categories[cat].parent = None
    THEN {p \in queryset : products[p].category \in {cat} \cup ActiveChildren(cat)}
    ELSE {p \in queryset : products[p].category = cat}

\* A handler that lets Category.DoesNotExist escape.
CategoryMissingRaises(queryset) == [raised |-> "DoesNotExist", ids |-> {}]

\* except Category.DoesNotExist: queryset.none()
CategoryMissing(queryset) == [raised |-> "", ids |-> {}]

\* ProductViewSet.get_queryset: the ids selected, or the exception that
\* escapes the handler.
ProductQueryset(search, category) ==
    LET base == IF Truthy(search) THEN SearchFilter(ActiveProducts, search[1])
                ELSE ActiveProducts IN
    IF ~Truthy(category) THEN [raised |-> "", ids |-> base]
    ELSE LET got == CategoryGet(category[1]) IN
         IF got.raised = "DoesNotExist" THEN CategoryMissing(base)
         ELSE IF got.raised # "" THEN [raised |-> got.raised, ids |-> {}]
         ELSE [raised |-> "", ids |-> CategoryFilter(base, got.cat)]

\* An exception that leaves a handler becomes an error response.
StatusOf(raised) ==
    IF raised = "" THEN 200 ELSE IF raised = "DoesNotExist" THEN 404 ELSE 500

\* GET /api/products/?search=&category=
ProductList(search, category) ==
    /\ Idle
    /\ LET qs == ProductQueryset(search, category) IN
        response' = [endpoint |-> "products", search |-> search,
                     category |-> category, status |-> StatusOf(qs.raised),
                     body |-> {ProductSerializer(p) : p \in qs.ids}]
    /\ UNCHANGED <<catalogVars, notificationVars, site_settings, inflight>>

\* Query parameter values.
SearchParams == {None, Some(<<>>), Some(<<"a", "B">>), Some(<<"c">>)}
CategoryParams ==
    {None, Some(<<>>), Some(<<"n", "o">>)}
        \cup {Some(CategorySlug(i)) : i \in 1..MaxCategories}

\* Display orders an admin enters.
Orders == {0, 1}

Init == InitNotif

Next ==
    \/ \E parent \in ParentChoices(categories), a \in BOOLEAN :
           AdminCategoryAdd(MaxCategories, parent, 0, a)
    \/ \E pk \in DOMAIN categories, parent \in ParentChoices(categories), a \in BOOLEAN :
           AdminCategoryChange(pk, parent, categories[pk].order, a)
    \/ \E cat \in DOMAIN categories, a \in BOOLEAN :
           AdminProductAdd(MaxProducts, cat, a)
    \/ \E pk \in DOMAIN products, cat \in DOMAIN categories, a \in BOOLEAN :
           AdminProductChange(pk, cat, a)
    \/ \E search \in SearchParams, category \in CategoryParams :
           ProductList(search, category)
    \/ Send

Spec == Init /\ [][Next]_vars

(***************************************************************************)
(* C3: when the `category` parameter of the product list resolves to an    *)
(* active category c, the list is exactly the listed products (active,     *)
(* and matching `search` when one is given) whose category is c or an      *)
(* active child of c if c has no parent, and exactly those whose category  *)
(* is c if c has a parent.                                                 *)
(***************************************************************************)
Listed(search) ==
    {p \in DOMAIN products :
        /\ products[p].is_active
        /\ Truthy(search) => IContains(products[p].name, search[1])}

C3_CategoryFilterExact ==
    (response.endpoint = "products" /\ Truthy(response.category)) =>
        \A c \in DOMAIN categories :
            (categories[c].is_active /\ categories[c].slug = response.category[1]) =>
                /\ response.status = 200
                /\ {b.id : b \in response.body} =
                     IF categories[c].parent = None
                     THEN {p \in Listed(response.search) :
                            \/ products[p].category = c
                            \/ /\ categories[products[p].category].parent = Some(c)
                               /\ categories[products[p].category].is_active}
                     ELSE {p \in Listed(response.search) : products[p].category = c}

\* category=<slug of a parent category> answered with a product of the
\* category itself and a product of its active child.
C3_Witness ==
    /\ response.endpoint = "products"
    /\ response.search = None
    /\ Truthy(response.category)
    /\ \E c \in DOMAIN categories, k \in DOMAIN categories :
        /\ categories[c].slug = response.category[1]
        /\ categories[c].is_active /\ categories[c].parent = None
        /\ k # c /\ categories[k].parent = Some(c) /\ categories[k].is_active
        /\ \E a \in response.body, b \in response.body :
            a.category.id = k /\ b.category.id = c

(***************************************************************************)
(* C4: a product list request whose (non-empty) `category` slug matches no *)
(* active category is answered 200 with an empty list, whatever `search`   *)
(* is.                                                                     *)
(***************************************************************************)
C4_UnknownCategoryEmpty ==
    (/\ response.endpoint = "products"
     /\ Truthy(response.category)
     /\ ~\E c \in DOMAIN categories :
            categories[c].is_active /\ categories[c].slug = response.category[1])
    => (response.status = 200 /\ response.body = {})

\* The slug of an inactive category, with a search term, answered with an
\* empty list although an active product of that category matches the term.
C4_Witness ==
    /\ response.endpoint = "products"
    /\ Truthy(response.category) /\ Truthy(response.search)
    /\ response.status = 200 /\ response.body = {}
    /\ \E c \in DOMAIN categories :
        /\ categories[c].slug = response.category[1]
        /\ ~categories[c].is_active
        /\ \E p \in Listed(response.search) : products[p].category = c

(***************************************************************************)
(* C8: no response of the public read API contains an inactive category,   *)
(* be it listed, detailed, a parent, an embedded child or the category     *)
(* embedded in a product.                                                  *)
(***************************************************************************)
OptionalIds(field) == IF field = None THEN {} ELSE {field[1]}

ProductBodyCategories(body) ==
    {body.category.id} \cup OptionalIds(body.category.parent_id)

ResponseCategories ==
    IF response.endpoint = "products" /\ response.status = 200
    THEN UNION {ProductBodyCategories(b) : b \in response.body}
    ELSE {}

C8_NoInactiveCategoryInResponse ==
    \A c \in ResponseCategories : categories[c].is_active

(***************************************************************************)
(* order_by: every sequence of the rows that ascends in the key (a tuple   *)
(* of integers, compared field by field).  Rows with equal keys come in    *)
(* an order the database chooses.                                          *)
(***************************************************************************)
LexLess(a, b) ==
    \E i \in 1..Len(a) : a[i] < b[i] /\ \A j \in 1..(i - 1) : a[j] = b[j]

RECURSIVE OrderBy(_, _)
OrderBy(ids, key) ==
    IF ids = {} THEN {<<>>}
    ELSE UNION {{<<m>> \o rest : rest \in OrderBy(ids \ {m}, key)} :
                 m \in {x \in ids : \A y \in ids : ~LexLess(key[y], key[x])}}

(***************************************************************************)
(* CategoryViewSet.                                                        *)
(***************************************************************************)
\* Category.get_all_children() (models.py): the active direct children.
GetAllChildren(cat) ==
    {k \in DOMAIN categories : categories[k].parent = Some(cat) /\ categories[k].is_active}

CategoryChildSerializer(cat) ==
    [id |-> cat, name |-> categories[cat].name, slug |-> categories[cat].slug,
     order |-> categories[cat].order, is_active |-> categories[cat].is_active]

CategorySerializer(cat) ==
    [id |-> cat, name |-> categories[cat].name, slug |-> categories[cat].slug,
     parent_id |-> ParentAttr(cat, "id"), parent_name |-> ParentAttr(cat, "name"),
     order |-> categories[cat].order, is_active |-> categories[cat].is_active,
     children |-> {CategoryChildSerializer(k) : k \in GetAllChildren(cat)}]

CategoryTreeSerializer(cat) ==
    [id |-> cat, name |-> categories[cat].name, slug |-> categories[cat].slug,
     order |-> categories[cat].order, is_active |-> categories[cat].is_active,
     children |-> {CategoryChildSerializer(k) : k \in GetAllChildren(cat)}]

\* CategoryViewSet.get_queryset
ActiveCategories == {c \in DOMAIN categories : categories[c].is_active}

\* GET /api/categories/
CategoryList ==
    /\ Idle
    /\ response' = [endpoint |-> "categories", status |-> 200,
                    body |-> {CategorySerializer(c) : c \in ActiveCategories}]
    /\ UNCHANGED <<catalogVars, notificationVars, site_settings, inflight>>

\* GET /api/categories/{slug}/ : lookup_field = 'slug' on the queryset.
CategoryRetrieve(slug) ==
    /\ Idle
    /\ LET found == {c \in ActiveCategories : categories[c].slug = slug} IN
        response' =
            IF found = {}
            THEN [endpoint |-> "categories/detail", key |-> slug, status |-> 404]
            ELSE [endpoint |-> "categories/detail", key |-> slug, status |-> 200,
                  body |-> CategorySerializer(CHOOSE c \in found : TRUE)]
    /\ UNCHANGED <<catalogVars, notificationVars, site_settings, inflight>>

\* A tree that takes every active category, parent or not.
TreeQuerysetAllActive == ActiveCategories

\* tree(): filter(is_active=True, parent__isnull=True)
TreeQueryset == {c \in ActiveCategories : categories[c].parent = None}

\* tree(): order_by('order', 'name')
TreeKey(cat) == <<categories[cat].order, categories[cat].name>>

\* GET /api/categories/tree/
CategoryTree ==
    /\ Idle
    /\ \E rows \in OrderBy(TreeQueryset, [c \in TreeQueryset |-> TreeKey(c)]) :
        response' = [endpoint |-> "categories/tree", status |-> 200,
                     body |-> [i \in 1..Len(rows) |-> CategoryTreeSerializer(rows[i])]]
    /\ UNCHANGED <<catalogVars, notificationVars, site_settings, inflight>>

\* Slugs a client asks for: every slug in use or to come, and one never used.
SlugsAsked(limit) == {<<"n", "o">>} \cup {CategorySlug(i) : i \in 1..limit}

InitCategories == InitNotif

NextCategories ==
    \/ \E parent \in ParentChoices(categories), order \in Orders, a \in BOOLEAN :
           AdminCategoryAdd(MaxTreeCategories, parent, order, a)
    \/ \E pk \in DOMAIN categories, parent \in ParentChoices(categories),
          order \in Orders, a \in BOOLEAN :
           AdminCategoryChange(pk, parent, order, a)
    \/ CategoryList
    \/ \E slug \in SlugsAsked(MaxTreeCategories) : CategoryRetrieve(slug)
    \/ CategoryTree
    \/ Send

SpecCategories == InitCategories /\ [][NextCategories]_vars

(***************************************************************************)
(* C9: the category tree is exactly the active categories without a        *)
(* parent, each once, in ascending (order, name), and each carries exactly *)
(* its active direct children (and so no deeper descendant).               *)
(***************************************************************************)
C9_TreeTopLevelWithActiveChildren ==
    response.endpoint = "categories/tree" =>
        LET body == response.body IN
        /\ response.status = 200
        /\ {body[i].id : i \in 1..Len(body)} =
               {c \in DOMAIN categories :
                   categories[c].is_active /\ categories[c].parent = None}
        /\ \A i, j \in 1..Len(body) : i < j =>
               /\ body[i].id # body[j].id
               /\ \/ body[i].order < body[j].order
                  \/ body[i].order = body[j].order /\ body[i].name <= body[j].name
        /\ \A i \in 1..Len(body) :
               {k.id : k \in body[i].children} =
                   {k \in DOMAIN categories :
                       categories[k].is_active /\ categories[k].parent = Some(body[i].id)}

\* A tree of two top-level categories that the ordering puts against their
\* ids, one of them carrying a child.
C9_Witness ==
    /\ response.endpoint = "categories/tree"
    /\ Len(response.body) = 2
    /\ response.body[1].id > response.body[2].id
    /\ \E i \in 1..2 : response.body[i].children # {}

(***************************************************************************)
(* BestSelling and Hot: the tables, their admin screens, the homepage and  *)
(* the list endpoints.                                                     *)
(***************************************************************************)
HOMEPAGE_PRODUCTS_LIMIT == 100

CuratedRows == Cardinality(DOMAIN best_selling) + Cardinality(DOMAIN hot)

\* BestSellingAdmin add view (fields product, order, is_active).
AdminBestSellingAdd(limit, product, order, is_active) ==
    /\ Idle
    /\ CuratedRows < limit
    /\ product \in DOMAIN products
    /\ LET pk == Cardinality(DOMAIN best_selling) + 1 IN
        best_selling' = [i \in (DOMAIN best_selling) \cup {pk} |->
            IF i = pk
            THEN [product |-> product, order |-> order, is_active |-> is_active]
            ELSE best_selling[i]]
    /\ response' = AdminResponse("bestselling", "add", 302)
    /\ UNCHANGED <<categories, products, hot, tracking_codes,
                   notificationVars, site_settings, inflight>>

\* BestSellingAdmin change view and change list (list_editable order, is_active).
AdminBestSellingChange(pk, product, order, is_active) ==
    /\ Idle
    /\ pk \in DOMAIN best_selling
    /\ product \in DOMAIN products
    /\ best_selling' = [best_selling EXCEPT ![pk] =
           [product |-> product, order |-> order, is_active |-> is_active]]
    /\ response' = AdminResponse("bestselling", "change", 302)
    /\ UNCHANGED <<categories, products, hot, tracking_codes,
                   notificationVars, site_settings, inflight>>

\* HotAdmin add view (fields product, order, is_active).
AdminHotAdd(limit, product, order, is_active) ==
    /\ Idle
    /\ CuratedRows < limit
    /\ product \in DOMAIN products
    /\ LET pk == Cardinality(DOMAIN hot) + 1 IN
        hot' = [i \in (DOMAIN hot) \cup {pk} |->
            IF i = pk
            THEN [product |-> product, order |-> order, is_active |-> is_active]
            ELSE hot[i]]
    /\ response' = AdminResponse("hot", "add", 302)
    /\ UNCHANGED <<categories, products, best_selling, tracking_codes,
                   notificationVars, site_settings, inflight>>

\* HotAdmin change view and change list (list_editable order, is_active).
AdminHotChange(pk, product, order, is_active) ==
    /\ Idle
    /\ pk \in DOMAIN hot
    /\ product \in DOMAIN products
    /\ hot' = [hot EXCEPT ![pk] =
           [product |-> product, order |-> order, is_active |-> is_active]]
    /\ response' = AdminResponse("hot", "change", 302)
    /\ UNCHANGED <<categories, products, best_selling, tracking_codes,
                   notificationVars, site_settings, inflight>>

\* BestSellingSerializer / HotSerializer: the entry with its product embedded.
CurationSerializer(rows, pk) ==
    [id |-> pk, product |-> ProductSerializer(rows[pk].product),
     order |-> rows[pk].order, is_active |-> rows[pk].is_active]

\* Product.objects.filter(is_active=True), as rows in primary key order.
ActiveProductRows ==
    SelectSeq([i \in 1..Cardinality(DOMAIN products) |-> i],
              LAMBDA p : products[p].is_active)

\* order_by('-created_at')
NewestFirst(rows) ==
    SortSeq(rows, LAMBDA p, q : products[p].created_at > products[q].created_at)

\* queryset[:limit]
Slice(rows, limit) == SubSeq(rows, 1, IF Len(rows) < limit THEN Len(rows) ELSE limit)

\* A homepage that slices one product too many.
HomepageProductsOffByOne ==
    Slice(NewestFirst(ActiveProductRows), HOMEPAGE_PRODUCTS_LIMIT + 1)

\* HomepageView.get, products_qs.
HomepageProducts == Slice(NewestFirst(ActiveProductRows), HOMEPAGE_PRODUCTS_LIMIT)

\* A homepage filter that forgets product__is_active.
HomepageCurationEntryOnly(rows) == {e \in DOMAIN rows : rows[e].is_active}

\* HomepageView.get, best_selling_qs / hot_qs:
\* filter(is_active=True, product__is_active=True)
HomepageCuration(rows) ==
    {e \in DOMAIN rows : rows[e].is_active /\ products[rows[e].product].is_active}

\* order_by('order')
CurationKey(rows) == [e \in DOMAIN rows |-> <<rows[e].order>>]

\* GET /api/homepage/
Homepage ==
    /\ Idle
    /\ \E best \in OrderBy(HomepageCuration(best_selling), CurationKey(best_selling)),
          hots \in OrderBy(HomepageCuration(hot), CurationKey(hot)) :
        response' =
            [endpoint |-> "homepage", status |-> 200,
             body |->
               [products |-> LET feed == HomepageProducts IN
                                 [i \in 1..Len(feed) |-> ProductSerializer(feed[i])],
                best_selling |-> [i \in 1..Len(best) |->
                                 CurationSerializer(best_selling, best[i])],
                hot |-> [i \in 1..Len(hots) |-> CurationSerializer(hot, hots[i])]]]
    /\ UNCHANGED <<catalogVars, notificationVars, site_settings, inflight>>

\* BestSellingViewSet.get_queryset / HotViewSet.get_queryset:
\* filter(is_active=True, product__is_active=True)
CurationQueryset(rows) ==
    {e \in DOMAIN rows : rows[e].is_active /\ products[rows[e].product].is_active}

\* The default ordering of BestSelling and Hot (Meta.ordering, models.py):
\* ascending entry order.
CurationDefaultOrdering(rows) == [e \in DOMAIN rows |-> <<rows[e].order>>]

\* GET /api/best-selling/
BestSellingList ==
    /\ Idle
    /\ \E rows \in OrderBy(CurationQueryset(best_selling),
                           CurationDefaultOrdering(best_selling)) :
        response' = [endpoint |-> "best-selling", status |-> 200,
                     body |-> [i \in 1..Len(rows) |->
                                  CurationSerializer(best_selling, rows[i])]]
    /\ UNCHANGED <<catalogVars, notificationVars, site_settings, inflight>>

\* GET /api/hot/
HotList ==
    /\ Idle
    /\ \E rows \in OrderBy(CurationQueryset(hot), CurationDefaultOrdering(hot)) :
        response' = [endpoint |-> "hot", status |-> 200,
                     body |-> [i \in 1..Len(rows) |-> CurationSerializer(hot, rows[i])]]
    /\ UNCHANGED <<catalogVars, notificationVars, site_settings, inflight>>

\* A catalog in which an admin has created one active top-level category.
OneCategory ==
    [i \in {1} |-> [name |-> CategoryName(1), slug |-> CategorySlug(1),
                    parent |-> None, order |-> 0, is_active |-> TRUE]]

\* ... and two active products in it, created one after the other.
TwoProducts ==
    [i \in {1, 2} |-> [name |-> ProductName(i), category |-> 1,
                       is_active |-> TRUE, created_at |-> i]]

InitCuration ==
    /\ categories = OneCategory
    /\ products = TwoProducts
    /\ best_selling = EmptyTable
    /\ hot = EmptyTable
    /\ tracking_codes = EmptyTable
    /\ site_settings = EmptyTable
    /\ notifications = EmptyTable
    /\ notification_seq = 0
    /\ inflight = [c \in Clients |-> None]
    /\ response = NoResponse

NextCuration ==
    \/ \E pk \in DOMAIN products, cat \in DOMAIN categories, a \in BOOLEAN :
           AdminProductChange(pk, cat, a)
    \/ \E p \in DOMAIN products, order \in Orders, a \in BOOLEAN :
           AdminBestSellingAdd(MaxCurated, p, order, a)
    \/ \E pk \in DOMAIN best_selling, p \in DOMAIN products, order \in Orders, a \in BOOLEAN :
           AdminBestSellingChange(pk, p, order, a)
    \/ \E p \in DOMAIN products, order \in Orders, a \in BOOLEAN :
           AdminHotAdd(MaxCurated, p, order, a)
    \/ \E pk \in DOMAIN hot, p \in DOMAIN products, order \in Orders, a \in BOOLEAN :
           AdminHotChange(pk, p, order, a)
    \/ Homepage
    \/ BestSellingList
    \/ HotList
    \/ Send

SpecCuration == InitCuration /\ [][NextCuration]_vars

(***************************************************************************)
(* C6: in the homepage's best_selling and hot arrays and in the lists of   *)
(* the best-selling and hot endpoints, every entry is active, references   *)
(* an active product, and the entries ascend in their order field.         *)
(***************************************************************************)
CuratedEntriesSound(entries, rows) ==
    /\ \A i \in 1..Len(entries) :
        /\ entries[i].is_active /\ rows[entries[i].id].is_active
        /\ entries[i].product.is_active
        /\ products[rows[entries[i].id].product].is_active
        /\ entries[i].product.id = rows[entries[i].id].product
    /\ \A i, j \in 1..Len(entries) : i < j => entries[i].order <= entries[j].order

C6_CuratedActiveAndOrdered ==
    /\ response.endpoint = "homepage" =>
        /\ CuratedEntriesSound(response.body.best_selling, best_selling)
        /\ CuratedEntriesSound(response.body.hot, hot)
    /\ response.endpoint = "best-selling" =>
        CuratedEntriesSound(response.body, best_selling)
    /\ response.endpoint = "hot" => CuratedEntriesSound(response.body, hot)

\* A homepage whose best_selling array holds two entries against the order
\* of their ids, while a third, active entry of an inactive product is left
\* out.
C6_Witness ==
    /\ response.endpoint = "homepage"
    /\ Len(response.body.best_selling) = 2
    /\ response.body.best_selling[1].id > response.body.best_selling[2].id
    /\ response.body.best_selling[1].order < response.body.best_selling[2].order
    /\ \E e \in DOMAIN best_selling :
        best_selling[e].is_active /\ ~products[best_selling[e].product].is_active

(***************************************************************************)
(* The homepage feed around its cap: a catalog that holds one product      *)
(* fewer than the cap grows past it, while the oldest product and the      *)
(* products next to the cap are switched off and on.                       *)
(***************************************************************************)
SeededProducts == HOMEPAGE_PRODUCTS_LIMIT - 1

ManyProducts ==
    [i \in 1..SeededProducts |-> [name |-> ProductName(i), category |-> 1,
                                  is_active |-> TRUE, created_at |-> i]]

\* The products whose change form is submitted.
EditedProducts == {pk \in DOMAIN products : pk = 1 \/ pk >= SeededProducts}

InitHome ==
    /\ categories = OneCategory
    /\ products = ManyProducts
    /\ best_selling = EmptyTable
    /\ hot = EmptyTable
    /\ tracking_codes = EmptyTable
    /\ site_settings = EmptyTable
    /\ notifications = EmptyTable
    /\ notification_seq = 0
    /\ inflight = [c \in Clients |-> None]
    /\ response = NoResponse

NextHome ==
    \/ \E cat \in DOMAIN categories, a \in BOOLEAN :
           AdminProductAdd(HOMEPAGE_PRODUCTS_LIMIT + MaxExtraProducts, cat, a)
    \/ \E pk \in EditedProducts, cat \in DOMAIN categories, a \in BOOLEAN :
           AdminProductChange(pk, cat, a)
    \/ Homepage
    \/ Send

SpecHome == InitHome /\ [][NextHome]_vars

(***************************************************************************)
(* C5: the products array of the homepage response has at most 100         *)
(* elements, holds only active products, descends in creation time, and    *)
(* is exactly the 100 most recently created active products when more      *)
(* than 100 active products exist.                                         *)
(***************************************************************************)
C5_HomepageProductsCapped ==
    response.endpoint = "homepage" =>
        LET feed == response.body.products
            shown == {feed[i].id : i \in 1..Len(feed)}
            active == {p \in DOMAIN products : products[p].is_active}
        IN /\ Len(feed) <= 100
           /\ shown \subseteq active
           /\ \A i \in 1..Len(feed) : feed[i].is_active
           /\ \A i \in 1..Len(feed) : feed[i].created_at = products[feed[i].id].created_at
           /\ \A i, j \in 1..Len(feed) :
                  i < j => feed[i].created_at > feed[j].created_at
           /\ Cardinality(active) > 100 =>
                  /\ Len(feed) = 100
                  /\ \A p \in shown : \A q \in active \ shown :
                         products[q].created_at < products[p].created_at

\* A homepage served from more than 100 active products, where an inactive
\* product newer than the oldest product shown is skipped and an active
\* older one is cut off.
C5_Witness ==
    /\ response.endpoint = "homepage"
    /\ Len(response.body.products) = 100
    /\ Cardinality({p \in DOMAIN products : products[p].is_active}) > 100
    /\ \E p \in DOMAIN products :
        /\ ~products[p].is_active
        /\ products[p].created_at > response.body.products[100].created_at
    /\ \E q \in DOMAIN products :
        /\ products[q].is_active
        /\ products[q].created_at < response.body.products[100].created_at

(***************************************************************************)
(* Detail lookups: GET <endpoint>/{id or slug}/ on the six viewsets.       *)
(* get_object() looks the key up in the viewset's queryset and raises      *)
(* Http404 when no row of the queryset has it.                             *)
(***************************************************************************)
\* TrackingCodeAdmin add view (fields name, code, is_active).
AdminTrackingCodeAdd(limit, is_active) ==
    /\ Idle
    /\ Cardinality(DOMAIN tracking_codes) < limit
    /\ LET pk == Cardinality(DOMAIN tracking_codes) + 1 IN
        tracking_codes' = [i \in (DOMAIN tracking_codes) \cup {pk} |->
            IF i = pk THEN [name |-> <<"t", pk>>, is_active |-> is_active]
            ELSE tracking_codes[i]]
    /\ response' = AdminResponse("trackingcode", "add", 302)
    /\ UNCHANGED <<categories, products, best_selling, hot,
                   notificationVars, site_settings, inflight>>

\* TrackingCodeAdmin change view and change list (list_editable is_active).
AdminTrackingCodeChange(pk, is_active) ==
    /\ Idle
    /\ pk \in DOMAIN tracking_codes
    /\ tracking_codes' = [tracking_codes EXCEPT ![pk].is_active = is_active]
    /\ response' = AdminResponse("trackingcode", "change", 302)
    /\ UNCHANGED <<categories, products, best_selling, hot,
                   notificationVars, site_settings, inflight>>

TrackingCodeSerializer(pk) ==
    [id |-> pk, name |-> tracking_codes[pk].name,
     is_active |-> tracking_codes[pk].is_active]

\* get_object(): Http404, or the serialized row.
DetailNotFound(endpoint, key) == [endpoint |-> endpoint, key |-> key, status |-> 404]
DetailFound(endpoint, key, body) ==
    [endpoint |-> endpoint, key |-> key, status |-> 200, body |-> body]

\* GET /api/products/{id}/ without query parameters.
ProductRetrieve(pk) ==
    /\ Idle
    /\ response' = IF pk \in ProductQueryset(None, None).ids
                   THEN DetailFound("products/detail", pk, ProductSerializer(pk))
                   ELSE DetailNotFound("products/detail", pk)
    /\ UNCHANGED <<catalogVars, notificationVars, site_settings, inflight>>

\* GET /api/best-selling/{id}/
BestSellingRetrieve(pk) ==
    /\ Idle
    /\ response' = IF pk \in CurationQueryset(best_selling)
                   THEN DetailFound("best-selling/detail", pk,
                                    CurationSerializer(best_selling, pk))
                   ELSE DetailNotFound("best-selling/detail", pk)
    /\ UNCHANGED <<catalogVars, notificationVars, site_settings, inflight>>

\* GET /api/hot/{id}/
HotRetrieve(pk) ==
    /\ Idle
    /\ response' = IF pk \in CurationQueryset(hot)
                   THEN DetailFound("hot/detail", pk, CurationSerializer(hot, pk))
                   ELSE DetailNotFound("hot/detail", pk)
    /\ UNCHANGED <<catalogVars, notificationVars, site_settings, inflight>>

\* NotificationViewSet.queryset = Notification.objects.all()
NotificationQueryset == DOMAIN notifications

\* GET /api/notifications/{id}/
NotificationRetrieve(pk) ==
    /\ Idle
    /\ response' = IF pk \in NotificationQueryset
                   THEN DetailFound("notifications/detail", pk,
                                    NotificationSerializer(pk, notifications[pk]))
                   ELSE DetailNotFound("notifications/detail", pk)
    /\ UNCHANGED <<catalogVars, notificationVars, site_settings, inflight>>

\* A tracking-code viewset over every row.
TrackingCodeQuerysetAll == DOMAIN tracking_codes

\* TrackingCodeViewSet.queryset = TrackingCode.objects.filter(is_active=True)
TrackingCodeQueryset == {t \in DOMAIN tracking_codes : tracking_codes[t].is_active}

\* GET /api/tracking-codes/{id}/
TrackingCodeRetrieve(pk) ==
    /\ Idle
    /\ response' = IF pk \in TrackingCodeQueryset
                   THEN DetailFound("tracking-codes/detail", pk,
                                    TrackingCodeSerializer(pk))
                   ELSE DetailNotFound("tracking-codes/detail", pk)
    /\ UNCHANGED <<catalogVars, notificationVars, site_settings, inflight>>

\* The ids asked for: those of the table and the first one it has not used.
DetailKeys(rows) == (DOMAIN rows) \cup {Cardinality(DOMAIN rows) + 1}

\* Rows added on top of the seeded category and products.
DetailRows == CuratedRows + Cardinality(DOMAIN tracking_codes) + notification_seq

InitDetail == InitCuration

NextDetail ==
    \/ \E pk \in DOMAIN categories, a \in BOOLEAN :
           AdminCategoryChange(pk, categories[pk].parent, categories[pk].order, a)
    \/ \E pk \in DOMAIN products, a \in BOOLEAN :
           AdminProductChange(pk, products[pk].category, a)
    \/ \E p \in DOMAIN products, a \in BOOLEAN :
           DetailRows < MaxDetailRows /\ AdminBestSellingAdd(MaxDetailRows, p, 0, a)
    \/ \E pk \in DOMAIN best_selling, a \in BOOLEAN :
           AdminBestSellingChange(pk, best_selling[pk].product, best_selling[pk].order, a)
    \/ \E p \in DOMAIN products, a \in BOOLEAN :
           DetailRows < MaxDetailRows /\ AdminHotAdd(MaxDetailRows, p, 0, a)
    \/ \E pk \in DOMAIN hot, a \in BOOLEAN :
           AdminHotChange(pk, hot[pk].product, hot[pk].order, a)
    \/ \E a \in BOOLEAN :
           DetailRows < MaxDetailRows /\ AdminTrackingCodeAdd(MaxDetailRows, a)
    \/ \E pk \in DOMAIN tracking_codes, a \in BOOLEAN : AdminTrackingCodeChange(pk, a)
    \/ \E c \in Clients, data \in NotificationFull :
           Idle /\ DetailRows < MaxDetailRows /\ NotificationCreate(c, data)
    \/ \E pk \in DetailKeys(products) : ProductRetrieve(pk)
    \/ \E slug \in SlugsAsked(Cardinality(DOMAIN categories)) : CategoryRetrieve(slug)
    \/ \E pk \in DetailKeys(best_selling) : BestSellingRetrieve(pk)
    \/ \E pk \in DetailKeys(hot) : HotRetrieve(pk)
    \/ \E pk \in DetailKeys(notifications) : NotificationRetrieve(pk)
    \/ \E pk \in DetailKeys(tracking_codes) : TrackingCodeRetrieve(pk)
    \/ Send

SpecDetail == InitDetail /\ [][NextDetail]_vars

\* The response to a lookup whose entity is missing or inactive is NotFound.
MissingOrInactive(rows, pk) == pk \notin DOMAIN rows \/ ~rows[pk].is_active

DetailNotFoundWhenMissingOrInactive(endpoint, rows) ==
    (response.endpoint = endpoint /\ MissingOrInactive(rows, response.key))
        => response.status = 404

CategoryDetailNotFoundWhenMissingOrInactive ==
    (/\ response.endpoint = "categories/detail"
     /\ \A c \in DOMAIN categories :
            categories[c].slug = response.key => ~categories[c].is_active)
        => response.status = 404

Instants == {"2026-01-01T00:00:00Z"}

\* Request payloads addressed to the serializer: any of its fields, or none.
SiteSettingsPayloads ==
    {EmptyTable} \cup [hero_image : HeroImages] \cup [updated_at : Instants]
                 \cup [hero_image : HeroImages, updated_at : Instants]

\* SiteSettingsSerializer.Meta.fields
SiteSettingsFields == {"hero_image", "updated_at"}

\* A serializer that declares no read-only field.
SiteSettingsReadOnlyFieldsNone == {}

\* SiteSettingsSerializer.Meta.read_only_fields
SiteSettingsReadOnlyFields == {"hero_image", "updated_at"}

\* Serializer.is_valid(): validated_data holds the payload's values of the
\* declared fields that are not read-only.
SiteSettingsValidatedData(data) ==
    [f \in (DOMAIN data) \cap (SiteSettingsFields \ SiteSettingsReadOnlyFields) |->
        data[f]]

\* SiteSettingsSerializer(instance, data=data).save(): the validated values
\* are set on the row that was read.
SiteSettingsSerializerSave(c, pk, data) ==
    /\ inflight[c] = None
    /\ pk \in DOMAIN site_settings
    /\ LET validated == SiteSettingsValidatedData(data) IN
        /\ site_settings' =
               [site_settings EXCEPT ![pk] = SetAttrs(site_settings[pk], validated)]
        /\ response' = [endpoint |-> "site-settings", method |-> "PUT", status |-> 200,
                        pk |-> pk, data |-> data, validated |-> validated]
    /\ UNCHANGED <<catalogVars, notificationVars, inflight>>

\* GET /api/site-settings/ : the hero image of the settings row, none when
\* there is no row.
SiteSettingsGet(c) ==
    /\ inflight[c] = None
    /\ response' =
           [endpoint |-> "site-settings", method |-> "GET", status |-> 200,
            body |-> IF DOMAIN site_settings = {} THEN [hero_image |-> ""]
                     ELSE [hero_image |-> site_settings[First(DOMAIN site_settings)[1]].hero_image]]
    /\ UNCHANGED <<catalogVars, notificationVars, site_settings, inflight>>

InitSiteSettings == InitNotif

NextSiteSettings ==
    \/ \E c \in Clients, h \in HeroImages : AdminSiteSettingsAddBegin(c, h)
    \/ \E c \in Clients : AdminSiteSettingsAddPerform(c)
    \/ \E c \in Clients, pk \in 1..Cardinality(Clients), h \in HeroImages :
           AdminSiteSettingsChange(c, pk, h)
    \/ \E c \in Clients, pk \in 1..Cardinality(Clients) : AdminSiteSettingsDelete(c, pk)
    \/ \E c \in Clients, pk \in 1..Cardinality(Clients), data \in SiteSettingsPayloads :
           SiteSettingsSerializerSave(c, pk, data)
    \/ \E c \in Clients : SiteSettingsGet(c)

SpecSiteSettings == InitSiteSettings /\ [][NextSiteSettings]_vars

(***************************************************************************)
(* C11: once a SiteSettings row exists it exists in every later state; the *)
(* admin delete permission is refused for every request and every object   *)
(* (a delete request is answered 403); and the public serializer accepts   *)
(* no write to hero_image or updated_at: its validated data carries        *)
(* neither field and saving it leaves every row as it was.                 *)
(***************************************************************************)
C11_SiteSettingsRowPersists ==
    /\ [][DOMAIN site_settings \subseteq DOMAIN site_settings']_vars
    /\ [](\A pk \in DOMAIN site_settings : ~HasDeletePermission(site_settings, pk))
    /\ []((response.endpoint = "admin" /\ response.model = "sitesettings"
             /\ response.view = "delete") => response.status = 403)
    /\ []((response.endpoint = "site-settings" /\ response.method = "PUT")
             => (DOMAIN response.validated) \cap {"hero_image", "updated_at"} = {})
    /\ [][\A c \in Clients, pk \in DOMAIN site_settings, data \in SiteSettingsPayloads :
             SiteSettingsSerializerSave(c, pk, data) => site_settings' = site_settings]_vars

\* A delete of the stored row, which has a hero image, has been refused.
C11_Witness ==
    /\ response.endpoint = "admin"
    /\ response.model = "sitesettings"
    /\ response.view = "delete"
    /\ response.status = 403
    /\ \E pk \in DOMAIN site_settings : site_settings[pk].hero_image # ""

====
